---- MODULE Spec2Model ----
(***************************************************************************)
(* State-machine model of aui-next-generator: the configuration resolver   *)
(* (cli.rs, validation.rs) followed by the project materializer            *)
(* (generator.rs, files.rs).  Text is modelled as sequences of one-        *)
(* character strings, paths as sequences of path components relative to    *)
(* the destination directory (<<>> is the destination itself).             *)
(***************************************************************************)
EXTENDS Integers, Sequences, FiniteSets, TLC

\* ------------------------------------------------------------------ bounds
MaxNameLen == 2

\* Version strings are written with at most this many units of VersionUnits.
MaxVersionUnits == 5

\* Version numbers handed directly to is_node_version_compatible.
MaxMajor == 20

MaxMinor == 100

\* ------------------------------------------------------------------ text
\* The units a project name is written with: a blank, a letter, and the word
\* QueryProvider standing for that run of letters inside a name.
Chars == {" ", "a", "QueryProvider"}

Whitespace == {" ", "\n"}

RECURSIVE SeqsUpTo(_, _)
SeqsUpTo(S, n) ==
    IF n = 0 THEN {<<>>}
    ELSE LET shorter == SeqsUpTo(S, n - 1)
         IN  shorter \cup {Append(s, c) : s \in {t \in shorter : Len(t) = n - 1}, c \in S}

Names == SeqsUpTo(Chars, MaxNameLen)

RECURSIVE trim_start(_)
trim_start(s) ==
    IF s # <<>> /\ Head(s) \in Whitespace THEN trim_start(Tail(s)) ELSE s

RECURSIVE trim_end(_)
trim_end(s) ==
    IF s # <<>> /\ s[Len(s)] \in Whitespace
    THEN trim_end(SubSeq(s, 1, Len(s) - 1))
    ELSE s

trim(s) == trim_end(trim_start(s))

is_empty(s) == Len(s) = 0

\* ------------------------------------------------------------------ config
ProjectConfig_new(name, install_deps, use_turbo, use_react_query) ==
    [name |-> name, install_deps |-> install_deps,
     use_turbo |-> use_turbo, use_react_query |-> use_react_query]

NoConfig == ProjectConfig_new(<<>>, FALSE, FALSE, FALSE)

\* A variant of DIRECTORIES that lacks "public".
DIRECTORIES_NoPublic ==
    << <<"src", "app">>, <<"src", "components">>, <<"src", "constants">>,
       <<"src", "hooks">>, <<"src", "libs">>, <<"src", "assets">>,
       <<"src", "types">>, <<"src", "fonts">>, <<"src", "styles">> >>

DIRECTORIES ==
    << <<"src", "app">>, <<"src", "components">>, <<"src", "constants">>,
       <<"src", "hooks">>, <<"src", "libs">>, <<"src", "assets">>,
       <<"src", "types">>, <<"src", "fonts">>, <<"src", "styles">>,
       <<"public">> >>

\* ------------------------------------------------------------------ files.rs
\* A file's content is the sequence of pieces format! concatenates: literal
\* template text (Lit) and substituted project names (Val).  An empty piece
\* contributes no bytes, so Format drops it.
Lit(s) == [t |-> s, v |-> <<>>]

Val(n) == [t |-> "", v |-> n]

Format(pieces) == SelectSeq(pieces, LAMBDA p : ~(p.t = "" /\ p.v = <<>>))

DevKey == Lit("\", version, private, \"scripts\": { \"dev\": \"")

ScriptsRest == Lit("\", build, start, lint, lint:fix }, ")

DepsOpen == Lit("\"dependencies\": {")

\* The entries the template always lists in "dependencies".
DepsBase ==
    << Lit("\"next\": \"^15.0.0\""), Lit(", \"react\": \"^19.0.0\""),
       Lit(", \"react-dom\": \"^19.0.0\"") >>

DepsClose == Lit("}, ")

DevDeps == Lit("\"devDependencies\": { ... } }")

\* A variant of dev_script that never passes --turbo.
dev_script_NeverTurbo(config) == "next dev"

dev_script(config) ==
    IF config.use_turbo THEN "next dev --turbo" ELSE "next dev"

\* A variant of react_query_deps that forgets the devtools entry.
react_query_deps_NoDevtools(config) ==
    IF config.use_react_query
    THEN << Lit(", \"@tanstack/react-query\": \"^5.59.0\"") >>
    ELSE << >>

\* The text substituted after the react-dom entry: two more entries, each
\* led by its comma, or nothing.
react_query_deps(config) ==
    IF config.use_react_query
    THEN << Lit(", \"@tanstack/react-query\": \"^5.59.0\""),
            Lit(", \"@tanstack/react-query-devtools\": \"^5.59.0\"") >>
    ELSE << >>

create_package_json(config) ==
    [path |-> <<"package.json">>,
     content |-> Format(<< Lit("{ \"name\": \""), Val(config.name), DevKey,
                           Lit(dev_script(config)), ScriptsRest, DepsOpen >>
                        \o DepsBase
                        \o react_query_deps(config)
                        \o << DepsClose, DevDeps >>)]

create_tsconfig ==
    [path |-> <<"tsconfig.json">>, content |-> Format(<< Lit("tsconfig") >>)]

create_postcss_config ==
    [path |-> <<"postcss.config.mjs">>, content |-> Format(<< Lit("postcss") >>)]

create_next_config ==
    [path |-> <<"next.config.ts">>, content |-> Format(<< Lit("nextConfig") >>)]

create_eslint_config ==
    [path |-> <<".eslintrc.json">>, content |-> Format(<< Lit("eslint") >>)]

create_gitignore ==
    [path |-> <<".gitignore">>, content |-> Format(<< Lit("gitignore") >>)]

create_npmrc ==
    [path |-> <<".npmrc">>, content |-> Format(<< Lit("npmrc") >>)]

\* A variant of query_import that imports the provider unconditionally.
query_import_Always(config) ==
    "import { QueryProvider } from '@/libs/query-provider'"

query_import(config) ==
    IF config.use_react_query
    THEN "import { QueryProvider } from '@/libs/query-provider'"
    ELSE ""

query_wrapper_open(config) ==
    IF config.use_react_query THEN "<QueryProvider>" ELSE ""

\* A variant of query_wrapper_close that never closes the wrapper.
query_wrapper_close_Missing(config) == ""

query_wrapper_close(config) ==
    IF config.use_react_query THEN "</QueryProvider>" ELSE ""

create_app_layout(project_name, config) ==
    [path |-> <<"src", "app", "layout.tsx">>,
     content |-> Format(<< Lit("imports Metadata, Inter, globals.css"),
                           Lit(query_import(config)),
                           Lit("const inter; metadata title: '"),
                           Val(project_name),
                           Lit("', description; RootLayout <html><body>"),
                           Lit(query_wrapper_open(config)),
                           Lit("{children}"),
                           Lit(query_wrapper_close(config)),
                           Lit("</body></html>") >>)]

create_app_page(project_name) ==
    [path |-> <<"src", "app", "page.tsx">>,
     content |-> Format(<< Lit("Home: Welcome to <span>"), Val(project_name),
                           Lit("</span> Next.js 15, Tailwind CSS, TypeScript") >>)]

create_globals_css ==
    [path |-> <<"src", "styles", "globals.css">>,
     content |-> Format(<< Lit("globals.css") >>)]

create_button_component ==
    [path |-> <<"src", "components", "Button.tsx">>,
     content |-> Format(<< Lit("Button") >>)]

create_query_provider ==
    [path |-> <<"src", "libs", "query-provider.tsx">>,
     content |-> Format(<< Lit("QueryProvider") >>)]

create_api_client ==
    [path |-> <<"src", "libs", "api.ts">>,
     content |-> Format(<< Lit("apiRequest") >>)]

create_example_hooks ==
    [path |-> <<"src", "hooks", "use-api.ts">>,
     content |-> Format(<< Lit("usePosts") >>)]

\* A variant of create_readme whose structure block names a fixed root.
create_readme_FixedRoot(project_name) ==
    [path |-> <<"README.md">>,
     content |-> Format(<< Lit("# "), Val(project_name),
                           Lit("Getting Started, Features, Project Structure: "),
                           Val(<<"a">>),
                           Lit(" src/ public/ tsconfig.json package.json; Learn More, Deploy") >>)]

create_readme(project_name) ==
    [path |-> <<"README.md">>,
     content |-> Format(<< Lit("# "), Val(project_name),
                           Lit("Getting Started, Features, Project Structure: "),
                           Val(project_name),
                           Lit(" src/ public/ tsconfig.json package.json; Learn More, Deploy") >>)]

\* ------------------------------------------------------------------ generator.rs
\* A variant of unconditional_files whose home page mentions Turbopack when
\* use_turbo is set.
unconditional_files_FlaggedPage(config) ==
    << create_package_json(config),
       create_tsconfig,
       create_postcss_config,
       create_next_config,
       create_eslint_config,
       create_gitignore,
       create_npmrc,
       create_app_layout(config.name, config),
       [create_app_page(config.name) EXCEPT
           !.content = IF config.use_turbo THEN Append(@, Lit("Turbopack")) ELSE @],
       create_globals_css,
       create_button_component >>

\* The unconditional create_* calls at the head of create_files, in call
\* order; each entry is the path and content handed to fs::write.
unconditional_files(config) ==
    << create_package_json(config),
       create_tsconfig,
       create_postcss_config,
       create_next_config,
       create_eslint_config,
       create_gitignore,
       create_npmrc,
       create_app_layout(config.name, config),
       create_app_page(config.name),
       create_globals_css,
       create_button_component >>

\* The block guarded by `if config.use_react_query`.
react_query_files(config) ==
    IF config.use_react_query
    THEN << create_query_provider, create_api_client, create_example_hooks >>
    ELSE << >>

\* A variant of create_files that writes the query provider unconditionally.
create_files_AlwaysProvider(config) ==
    unconditional_files(config)
    \o (IF config.use_react_query
        THEN << create_query_provider, create_api_client, create_example_hooks >>
        ELSE << create_query_provider >>)
    \o << create_readme(config.name) >>

\* A variant of create_files that writes the README before the React Query files.
create_files_ReadmeEarly(config) ==
    unconditional_files(config)
    \o << create_readme(config.name) >>
    \o react_query_files(config)

\* create_files: the whole sequence of writes, README.md last.
create_files(config) ==
    unconditional_files(config)
    \o react_query_files(config)
    \o << create_readme(config.name) >>

\* ------------------------------------------------------------------ validation.rs
Digits == <<"0", "1", "2", "3", "4", "5", "6", "7", "8", "9">>

IsDigit(c) == \E i \in 1..10 : Digits[i] = c

DigitVal(c) == (CHOOSE i \in 1..10 : Digits[i] = c) - 1

\* u32::MAX, as decimal digits (the number itself exceeds TLC's integers).
U32MaxDigits == <<"4", "2", "9", "4", "9", "6", "7", "2", "9", "5">>

RECURSIVE StripZeros(_)
StripZeros(s) == IF s # <<>> /\ Head(s) = "0" THEN StripZeros(Tail(s)) ELSE s

RECURSIVE DigitsGreater(_, _)
DigitsGreater(a, b) ==
    IF a = <<>> THEN FALSE
    ELSE IF DigitVal(Head(a)) # DigitVal(Head(b))
    THEN DigitVal(Head(a)) > DigitVal(Head(b))
    ELSE DigitsGreater(Tail(a), Tail(b))

Overflows(body) ==
    LET d == StripZeros(body)
    IN  \/ Len(d) > Len(U32MaxDigits)
        \/ Len(d) = Len(U32MaxDigits) /\ DigitsGreater(d, U32MaxDigits)

RECURSIVE DecimalValue(_)
DecimalValue(s) ==
    IF s = <<>> THEN 0
    ELSE 10 * DecimalValue(SubSeq(s, 1, Len(s) - 1)) + DigitVal(s[Len(s)])

\* str::parse::<u32>: an optional '+', then one or more digits, no overflow.
parse_u32(s) ==
    LET body == IF s # <<>> /\ Head(s) = "+" THEN Tail(s) ELSE s
    IN  IF body = <<>> \/ \E i \in 1..Len(body) : ~IsDigit(body[i])
        THEN [ok |-> FALSE, val |-> 0]
        ELSE IF Overflows(body)
             THEN [ok |-> FALSE, val |-> 0]
             ELSE [ok |-> TRUE, val |-> DecimalValue(body)]

\* A variant of strip_prefix_v that strips every leading 'v'.
RECURSIVE strip_prefix_v_All(_)
strip_prefix_v_All(s) == IF s # <<>> /\ Head(s) = "v" THEN strip_prefix_v_All(Tail(s)) ELSE s

strip_prefix_v(s) == IF s # <<>> /\ Head(s) = "v" THEN Tail(s) ELSE s

RECURSIVE split_dot(_)
split_dot(s) ==
    IF \E i \in 1..Len(s) : s[i] = "."
    THEN LET i == CHOOSE k \in 1..Len(s) :
                      s[k] = "." /\ \A j \in 1..(k - 1) : s[j] # "."
         IN  <<SubSeq(s, 1, i - 1)>> \o split_dot(SubSeq(s, i + 1, Len(s)))
    ELSE <<s>>

required_major == 18

required_minor == 18

\* A variant of is_node_version_compatible that compares the two numbers
\* separately.
is_node_version_compatible_Each(major, minor) ==
    major >= required_major /\ minor >= required_minor

is_node_version_compatible(major, minor) ==
    major > required_major \/ (major = required_major /\ minor >= required_minor)

\* A variant of parse_node_version that insists on a patch component.
parse_node_version_NeedsPatch(version_str) ==
    LET clean_version == strip_prefix_v(version_str)
        parts == split_dot(clean_version)
    IN  IF Len(parts) < 3
        THEN [ok |-> FALSE, major |-> 0, minor |-> 0, err |-> "Could not parse Node.js version"]
        ELSE IF ~parse_u32(parts[1]).ok
        THEN [ok |-> FALSE, major |-> 0, minor |-> 0, err |-> "Invalid major version"]
        ELSE IF ~parse_u32(parts[2]).ok
        THEN [ok |-> FALSE, major |-> 0, minor |-> 0, err |-> "Invalid minor version"]
        ELSE [ok |-> TRUE, major |-> parse_u32(parts[1]).val,
              minor |-> parse_u32(parts[2]).val, err |-> ""]

\* parse_node_version: Ok((major, minor)) or the message of the error.
parse_node_version(version_str) ==
    LET clean_version == strip_prefix_v(version_str)
        parts == split_dot(clean_version)
    IN  IF Len(parts) < 2
        THEN [ok |-> FALSE, major |-> 0, minor |-> 0, err |-> "Could not parse Node.js version"]
        ELSE IF ~parse_u32(parts[1]).ok
        THEN [ok |-> FALSE, major |-> 0, minor |-> 0, err |-> "Invalid major version"]
        ELSE IF ~parse_u32(parts[2]).ok
        THEN [ok |-> FALSE, major |-> 0, minor |-> 0, err |-> "Invalid minor version"]
        ELSE [ok |-> TRUE, major |-> parse_u32(parts[1]).val,
              minor |-> parse_u32(parts[2]).val, err |-> ""]

NoParse == [ok |-> FALSE, major |-> 0, minor |-> 0, err |-> "none"]

NodeOk == ""

\* check_node_version applied to the outcome of running `node --version`:
\* probe.spawned is false when the process could not be started.  The result
\* is the error message, NodeOk on success.
check_node_version(probe) ==
    IF ~probe.spawned THEN "io error: node"
    ELSE IF ~probe.success THEN "Node.js is not installed or not in PATH"
    ELSE LET version_str == strip_prefix_v(trim(probe.stdout))
             parts == split_dot(version_str)
         IN  IF Len(parts) < 2 THEN "Could not parse Node.js version"
             ELSE IF ~parse_u32(parts[1]).ok THEN "Invalid major version"
             ELSE IF ~parse_u32(parts[2]).ok THEN "Invalid minor version"
             ELSE IF is_node_version_compatible(parse_u32(parts[1]).val,
                                                parse_u32(parts[2]).val)
             THEN NodeOk
             ELSE "Node.js version is not supported"

\* A variant of install_pnpm_global that accepts a non-zero exit.
install_pnpm_global_Lenient(npm) ==
    IF npm = "spawn_err" THEN "io error: npm" ELSE ""

\* install_pnpm_global applied to the outcome of `npm install -g pnpm`.
install_pnpm_global(npm) ==
    IF npm = "spawn_err" THEN "io error: npm"
    ELSE IF npm = "success" THEN ""
    ELSE "pnpm installation failed"

\* A variant of install_dependencies_with_pnpm that fails on a non-zero exit.
install_dependencies_with_pnpm_Strict(out) ==
    IF out = "spawn_err" THEN "io error: pnpm"
    ELSE IF out = "success" THEN ""
    ELSE "Failed to install dependencies"

\* A variant of install_dependencies_with_pnpm that also swallows the error
\* of a process that could not be started.
install_dependencies_with_pnpm_NeverFails(out) == ""

\* install_dependencies_with_pnpm applied to the outcome of `pnpm install`:
\* only a failure to start the process is an error.
install_dependencies_with_pnpm(out) ==
    IF out = "spawn_err" THEN "io error: pnpm" ELSE ""

ProcessOutcomes == {"spawn_err", "success", "failure"}

NodeProbes ==
    { [spawned |-> FALSE, success |-> FALSE, stdout |-> <<>>],
      [spawned |-> TRUE, success |-> FALSE, stdout |-> <<>>],
      [spawned |-> TRUE, success |-> TRUE,
       stdout |-> <<"v", "1", "8", ".", "1", "8", ".", "0", "\n">>],
      [spawned |-> TRUE, success |-> TRUE,
       stdout |-> <<"v", "1", "8", ".", "1", "7", ".", "1", "\n">>],
      [spawned |-> TRUE, success |-> TRUE,
       stdout |-> <<"v", "2", "0", ".", "1", ".", "0", "\n">>],
      [spawned |-> TRUE, success |-> TRUE,
       stdout |-> <<"v", "1", "7", ".", "9", "9", "\n">>],
      [spawned |-> TRUE, success |-> TRUE, stdout |-> <<"v", "2", "0", "\n">>],
      [spawned |-> TRUE, success |-> TRUE,
       stdout |-> <<"v", "x", ".", "1", "\n">>],
      [spawned |-> TRUE, success |-> TRUE,
       stdout |-> <<"v", "1", "8", ".", "x", "\n">>] }

\* ------------------------------------------------------------------ state
VARIABLES
    pc,            \* position of the run in main / get_project_config / generate_project
    args,          \* Cli: name (an Option) and skip_install
    project_name,  \* get_project_config's local project_name
    install,       \* get_project_config's local install
    turbo,         \* get_project_config's local turbo
    config,        \* the ProjectConfig returned by get_project_config
    resolution,    \* outcome of get_project_config: "pending", "ok", "err",
                   \* or "not_run" when generate_project is called directly
    generation,    \* "pending", "ok" or "err": outcome of generate_project
    err,           \* message of the error that ended the run, <<>> if none
    dirs,          \* directories that exist at or below the destination path
    files,         \* regular files at or below the destination path, with content
    fs0,           \* the filesystem as it was when the run started
    trace,         \* external operations performed so far, in order
    exit_code,     \* process exit code, -1 while running
    idx,           \* index of the next entry in the loop over DIRECTORIES / create_files
    vpc,           \* position of a call sequence on the version helpers, "off" in a run
    version_str,   \* the version string handed to the helpers
    parsed,        \* result of parse_node_version
    compatible,    \* result of is_node_version_compatible, FALSE before the call
    checked,       \* outcome of check_node_version's own logic, "none" before it ran
    foreign        \* what another process has put at the destination during the
                   \* run: "none", "dir" or "file"

version_vars == <<vpc, version_str, parsed, compatible, checked>>

vars == <<pc, args, project_name, install, turbo, config, resolution, generation,
          err, dirs, files, fs0, trace, exit_code, idx, version_vars, foreign>>

\* An external operation, the path it acts on (<<>> when it has none or when
\* it acts on the destination itself) and its outcome.
Event(op, path, out) == [op |-> op, path |-> path, out |-> out]

NoFiles == [p \in {} |-> <<>>]

\* What may already be at the destination path when the run starts: nothing,
\* a populated directory, or a regular file.
InitialFilesystems ==
    { [dirs |-> {}, files |-> NoFiles],
      [dirs |-> {<<>>, <<"src">>},
       files |-> [p \in {<<"package.json">>} |-> <<Lit("existing")>>]],
      [dirs |-> {}, files |-> [p \in {<<>>} |-> <<Lit("existing")>>]] }

\* The binary: main starts with the parsed command line.
MainStart ==
    /\ pc = "resolve_name"
    /\ args \in [name : [some : {TRUE}, val : Names] \cup {[some |-> FALSE, val |-> <<>>]},
                 skip_install : BOOLEAN]
    /\ config = NoConfig
    /\ resolution = "pending"

\* The library: generate_project is public and is called with a ProjectConfig
\* the caller built with ProjectConfig::new, as the integration tests do.
GenerateCall ==
    /\ pc = "generate_project"
    /\ args = [name |-> [some |-> FALSE, val |-> <<>>], skip_install |-> FALSE]
    /\ config \in [name : Names, install_deps : BOOLEAN, use_turbo : BOOLEAN,
                   use_react_query : BOOLEAN]
    /\ resolution = "not_run"

\* The empty path names nothing: when the destination name is known to be
\* empty from the start, nothing exists at it.
EmptyPathIsAbsent(fs) ==
    (\/ args.name.some /\ is_empty(args.name.val)
     \/ resolution = "not_run" /\ is_empty(config.name))
        => (fs.dirs = {} /\ DOMAIN fs.files = {})

Init ==
    /\ MainStart \/ GenerateCall
    /\ project_name = <<>>
    /\ install = FALSE
    /\ turbo = FALSE
    /\ generation = "pending"
    /\ err = <<>>
    /\ fs0 \in InitialFilesystems
    /\ EmptyPathIsAbsent(fs0)
    /\ dirs = fs0.dirs
    /\ files = fs0.files
    /\ trace = <<>>
    /\ exit_code = -1
    /\ idx = 1
    /\ vpc = "off"
    /\ version_str = <<>>
    /\ parsed = NoParse
    /\ compatible = FALSE
    /\ checked = "none"
    /\ foreign = "none"

\* get_project_config returns Err(msg): main propagates it.
ResolveFail(msg) ==
    /\ resolution' = "err"
    /\ err' = <<Lit(msg)>>
    /\ pc' = "main_return"

\* A variant of ResolveOk that hands install and turbo to ProjectConfig::new
\* in the wrong order.
ResolveOk_Swapped(install_deps, use_turbo, use_react_query) ==
    /\ config' = ProjectConfig_new(project_name, use_turbo, install_deps, use_react_query)
    /\ resolution' = "ok"
    /\ pc' = "generate_project"

\* get_project_config returns Ok(ProjectConfig::new(..)).
ResolveOk(install_deps, use_turbo, use_react_query) ==
    /\ config' = ProjectConfig_new(project_name, install_deps, use_turbo, use_react_query)
    /\ resolution' = "ok"
    /\ pc' = "generate_project"

Answers == {"yes", "no", "io_err"}

EmptyNameError == "Project name cannot be empty"

\* ------------------------------------------------------------------ cli.rs
\* get_project_config, the match on args.name: a supplied name is taken as
\* it is; otherwise the name is prompted for and rejected when blank.
ResolveName ==
    /\ pc = "resolve_name"
    /\ IF args.name.some
       THEN /\ project_name' = args.name.val
            /\ pc' = "resolve_flags"
            /\ UNCHANGED <<resolution, err, trace>>
       ELSE \E input \in [ok : {TRUE}, val : Names] \cup {[ok |-> FALSE, val |-> <<>>]} :
              /\ trace' = Append(trace, Event("prompt name", <<>>,
                                               IF input.ok THEN "ok" ELSE "io_err"))
              /\ IF ~input.ok
                 THEN ResolveFail("io error: prompt") /\ UNCHANGED project_name
                 ELSE IF is_empty(trim(input.val))
                 THEN ResolveFail(EmptyNameError) /\ UNCHANGED project_name
                 ELSE /\ project_name' = input.val
                      /\ pc' = "resolve_flags"
                      /\ UNCHANGED <<resolution, err>>
    /\ UNCHANGED <<args, install, turbo, config, generation, dirs, files, fs0, exit_code, idx>>
    /\ UNCHANGED <<version_vars, foreign>>

\* A variant of SkipInstall that still runs the runtime-version probe.
SkipInstall_ProbesNode ==
    /\ pc = "resolve_flags"
    /\ args.skip_install
    /\ trace' = Append(trace, Event("node --version", <<>>, "ok"))
    /\ ResolveOk(FALSE, FALSE, FALSE)
    /\ UNCHANGED <<args, project_name, install, turbo, generation, err, dirs, files,
                   fs0, exit_code, idx>>
    /\ UNCHANGED <<version_vars, foreign>>

\* The skip_install branch: (false, false, false) without probing or asking.
SkipInstall ==
    /\ pc = "resolve_flags"
    /\ args.skip_install
    /\ ResolveOk(FALSE, FALSE, FALSE)
    /\ UNCHANGED <<args, project_name, install, turbo, generation, err, dirs, files,
                   fs0, trace, exit_code, idx>>
    /\ UNCHANGED <<version_vars, foreign>>

\* A variant of CheckNodeVersion that does not propagate the error.
CheckNodeVersion_IgnoresResult ==
    /\ pc = "resolve_flags"
    /\ ~args.skip_install
    /\ \E probe \in NodeProbes :
         trace' = Append(trace, Event("node --version", <<>>,
                                      IF check_node_version(probe) = NodeOk
                                      THEN "ok" ELSE "err"))
    /\ pc' = "check_pnpm"
    /\ UNCHANGED <<args, project_name, install, turbo, config, resolution, err,
                   generation, dirs, files, fs0, exit_code, idx>>
    /\ UNCHANGED <<version_vars, foreign>>

CheckNodeVersion ==
    /\ pc = "resolve_flags"
    /\ ~args.skip_install
    /\ \E probe \in NodeProbes :
         /\ trace' = Append(trace, Event("node --version", <<>>,
                                          IF check_node_version(probe) = NodeOk
                                          THEN "ok" ELSE "err"))
         /\ IF check_node_version(probe) = NodeOk
            THEN pc' = "check_pnpm" /\ UNCHANGED <<resolution, err>>
            ELSE ResolveFail(check_node_version(probe))
    /\ UNCHANGED <<args, project_name, install, turbo, config, generation, dirs, files,
                   fs0, exit_code, idx>>
    /\ UNCHANGED <<version_vars, foreign>>

\* A variant of CheckAndInstallPnpm that goes on to the Turbopack question
\* instead of the install question.
CheckAndInstallPnpm_ThenTurbo ==
    /\ pc = "check_pnpm"
    /\ \E found \in BOOLEAN, answer \in Answers, npm \in ProcessOutcomes :
         IF found
         THEN /\ trace' = Append(trace, Event("which pnpm", <<>>, "found"))
              /\ pc' = "confirm_turbo"
              /\ UNCHANGED <<resolution, err>>
         ELSE IF answer = "io_err"
         THEN /\ trace' = trace \o <<Event("which pnpm", <<>>, "not found"),
                                     Event("confirm pnpm", <<>>, answer)>>
              /\ ResolveFail("io error: prompt")
         ELSE IF answer = "no"
         THEN /\ trace' = trace \o <<Event("which pnpm", <<>>, "not found"),
                                     Event("confirm pnpm", <<>>, answer)>>
              /\ ResolveFail("pnpm installation required")
         ELSE /\ trace' = trace \o <<Event("which pnpm", <<>>, "not found"),
                                     Event("confirm pnpm", <<>>, answer),
                                     Event("npm install -g pnpm", <<>>, npm)>>
              /\ IF install_pnpm_global(npm) = ""
                 THEN pc' = "confirm_turbo" /\ UNCHANGED <<resolution, err>>
                 ELSE ResolveFail(install_pnpm_global(npm))
    /\ UNCHANGED <<args, project_name, install, turbo, config, generation, dirs, files,
                   fs0, exit_code, idx>>
    /\ UNCHANGED <<version_vars, foreign>>

\* check_and_install_pnpm with install_pnpm_global: which, then (only when
\* pnpm is missing) one question and, on yes, `npm install -g pnpm`.
CheckAndInstallPnpm ==
    /\ pc = "check_pnpm"
    /\ \E found \in BOOLEAN, answer \in Answers, npm \in ProcessOutcomes :
         IF found
         THEN /\ trace' = Append(trace, Event("which pnpm", <<>>, "found"))
              /\ pc' = "confirm_install"
              /\ UNCHANGED <<resolution, err>>
         ELSE IF answer = "io_err"
         THEN /\ trace' = trace \o <<Event("which pnpm", <<>>, "not found"),
                                     Event("confirm pnpm", <<>>, answer)>>
              /\ ResolveFail("io error: prompt")
         ELSE IF answer = "no"
         THEN /\ trace' = trace \o <<Event("which pnpm", <<>>, "not found"),
                                     Event("confirm pnpm", <<>>, answer)>>
              /\ ResolveFail("pnpm installation required")
         ELSE /\ trace' = trace \o <<Event("which pnpm", <<>>, "not found"),
                                     Event("confirm pnpm", <<>>, answer),
                                     Event("npm install -g pnpm", <<>>, npm)>>
              /\ IF install_pnpm_global(npm) = ""
                 THEN pc' = "confirm_install" /\ UNCHANGED <<resolution, err>>
                 ELSE ResolveFail(install_pnpm_global(npm))
    /\ UNCHANGED <<args, project_name, install, turbo, config, generation, dirs, files,
                   fs0, exit_code, idx>>
    /\ UNCHANGED <<version_vars, foreign>>

\* A variant of ConfirmInstall that goes on to the Turbopack question
\* whatever the answer was.
ConfirmInstall_AlwaysAsksTurbo ==
    /\ pc = "confirm_install"
    /\ \E answer \in Answers :
         /\ trace' = Append(trace, Event("confirm install", <<>>, answer))
         /\ IF answer = "io_err"
            THEN ResolveFail("io error: prompt") /\ UNCHANGED <<install, turbo>>
            ELSE /\ install' = (answer = "yes")
                 /\ pc' = "confirm_turbo"
                 /\ UNCHANGED <<turbo, resolution, err>>
    /\ UNCHANGED <<args, project_name, config, generation, dirs, files, fs0, exit_code, idx>>
    /\ UNCHANGED <<version_vars, foreign>>

\* "Install project dependencies": turbo is asked only when the answer is yes.
ConfirmInstall ==
    /\ pc = "confirm_install"
    /\ \E answer \in Answers :
         /\ trace' = Append(trace, Event("confirm install", <<>>, answer))
         /\ IF answer = "io_err"
            THEN ResolveFail("io error: prompt") /\ UNCHANGED <<install, turbo>>
            ELSE /\ install' = (answer = "yes")
                 /\ IF answer = "yes"
                    THEN pc' = "confirm_turbo" /\ UNCHANGED turbo
                    ELSE pc' = "confirm_react_query" /\ turbo' = FALSE
                 /\ UNCHANGED <<resolution, err>>
    /\ UNCHANGED <<args, project_name, config, generation, dirs, files, fs0, exit_code, idx>>
    /\ UNCHANGED <<version_vars, foreign>>

\* A variant of ConfirmTurbo that takes a failed prompt for a "no" and goes on.
ConfirmTurbo_IoErrIsNo ==
    /\ pc = "confirm_turbo"
    /\ \E answer \in Answers :
         /\ trace' = Append(trace, Event("confirm turbo", <<>>, answer))
         /\ turbo' = (answer = "yes")
         /\ pc' = "confirm_react_query"
         /\ UNCHANGED <<resolution, err>>
    /\ UNCHANGED <<args, project_name, install, config, generation, dirs, files, fs0,
                   exit_code, idx>>
    /\ UNCHANGED <<version_vars, foreign>>

ConfirmTurbo ==
    /\ pc = "confirm_turbo"
    /\ \E answer \in Answers :
         /\ trace' = Append(trace, Event("confirm turbo", <<>>, answer))
         /\ IF answer = "io_err"
            THEN ResolveFail("io error: prompt") /\ UNCHANGED turbo
            ELSE /\ turbo' = (answer = "yes")
                 /\ pc' = "confirm_react_query"
                 /\ UNCHANGED <<resolution, err>>
    /\ UNCHANGED <<args, project_name, install, config, generation, dirs, files, fs0,
                   exit_code, idx>>
    /\ UNCHANGED <<version_vars, foreign>>

ConfirmReactQuery ==
    /\ pc = "confirm_react_query"
    /\ \E answer \in Answers :
         /\ trace' = Append(trace, Event("confirm react query", <<>>, answer))
         /\ IF answer = "io_err"
            THEN ResolveFail("io error: prompt") /\ UNCHANGED config
            ELSE ResolveOk(install, turbo, answer = "yes") /\ UNCHANGED err
    /\ UNCHANGED <<args, project_name, install, turbo, generation, dirs, files, fs0,
                   exit_code, idx>>
    /\ UNCHANGED <<version_vars, foreign>>

\* ------------------------------------------------------------------ std::fs
\* Path::new(&config.name): every path of the model is relative to it.
project_path == <<>>

Exists(path) == path \in dirs \/ path \in DOMAIN files

\* A variant of PathExists that only recognises directories (is_dir).
PathExists_DirsOnly(name) == ~is_empty(name) /\ project_path \in dirs

\* Path::new(name).exists(): the empty path never exists.
PathExists(name) == ~is_empty(name) /\ Exists(project_path)

Parent(path) == SubSeq(path, 1, Len(path) - 1)

Prefixes(path, k) == {SubSeq(path, 1, i) : i \in 1..k}

\* fs::create_dir_all creates the missing components one after another; it
\* may fail after any number k of them.  It succeeds iff k = Len(path).
create_dir_all(path, k) == dirs \cup Prefixes(path, k)

\* fs::write: create/truncate, then write everything.  It can only succeed
\* in an existing directory; a failure may leave a truncated file behind.
WriteOutcomes(path) ==
    IF Parent(path) \in dirs /\ path \notin dirs
    THEN {"ok", "io_err", "io_err_truncated"}
    ELSE {"io_err"}

fs_write(path, content, outcome) ==
    IF outcome = "ok" THEN [p \in DOMAIN files \cup {path} |->
                               IF p = path THEN content ELSE files[p]]
    ELSE IF outcome = "io_err_truncated"
    THEN [p \in DOMAIN files \cup {path} |-> IF p = path THEN <<>> ELSE files[p]]
    ELSE files

\* Where generate_project returns to: main, or the caller of the library.
ReturnTo == IF resolution = "ok" THEN "main_return" ELSE "returned"

\* generate_project returns Err(msg): the caller (main) propagates it.
GenerateFail(msg) ==
    /\ generation' = "err"
    /\ err' = msg
    /\ pc' = ReturnTo

\* ------------------------------------------------------------------ generator.rs
\* generate_project, the precondition: bail when the destination exists.
CheckDestination ==
    /\ pc = "generate_project"
    /\ IF PathExists(config.name)
       THEN GenerateFail(<<Lit("Directory '"), Val(config.name), Lit("' already exists!")>>)
       ELSE pc' = "create_dir" /\ UNCHANGED <<generation, err>>
    /\ UNCHANGED <<args, project_name, install, turbo, config, resolution, dirs, files,
                   fs0, trace, exit_code, idx>>
    /\ UNCHANGED <<version_vars, foreign>>

\* A variant of CreateRoot that tries again when fs::create_dir fails.
CreateRoot_Retries ==
    /\ pc = "create_dir"
    /\ \E io_ok \in BOOLEAN :
         LET ok == io_ok /\ ~Exists(project_path) /\ ~is_empty(config.name)
         IN  /\ trace' = Append(trace, Event("create_dir", project_path,
                                              IF ok THEN "ok" ELSE "io_err"))
             /\ IF ok
                THEN /\ dirs' = dirs \cup {project_path}
                     /\ pc' = "create_directories"
                     /\ idx' = 1
                ELSE UNCHANGED <<dirs, pc, idx>>
    /\ UNCHANGED <<args, project_name, install, turbo, config, resolution, files, fs0,
                   exit_code, generation, err>>
    /\ UNCHANGED <<version_vars, foreign>>

\* Another process creates the destination path, as a directory or as a
\* regular file, after generate_project has found it absent and before it
\* creates it.
ForeignCreate ==
    /\ pc = "create_dir"
    /\ foreign = "none"
    /\ ~is_empty(config.name)
    /\ ~Exists(project_path)
    /\ \E kind \in {"dir", "file"} :
         /\ foreign' = kind
         /\ IF kind = "dir"
            THEN dirs' = dirs \cup {project_path} /\ UNCHANGED files
            ELSE /\ files' = [p \in DOMAIN files \cup {project_path} |->
                                 IF p = project_path THEN <<Lit("foreign")>> ELSE files[p]]
                 /\ UNCHANGED dirs
    /\ UNCHANGED <<pc, args, project_name, install, turbo, config, resolution, generation,
                   err, fs0, trace, exit_code, idx, version_vars>>

\* A variant of CreateRoot that creates the root as create_dir_all would:
\* an existing directory is not an error.
CreateRoot_Recursive ==
    /\ pc = "create_dir"
    /\ \E io_ok \in BOOLEAN :
         LET ok == io_ok /\ project_path \notin DOMAIN files /\ ~is_empty(config.name)
         IN  /\ trace' = Append(trace, Event("create_dir", project_path,
                                              IF ok THEN "ok" ELSE "io_err"))
             /\ IF ok
                THEN /\ dirs' = dirs \cup {project_path}
                     /\ pc' = "create_directories"
                     /\ idx' = 1
                     /\ UNCHANGED <<generation, err>>
                ELSE /\ GenerateFail(<<Lit("io error: create_dir")>>)
                     /\ UNCHANGED <<dirs, idx>>
    /\ UNCHANGED <<args, project_name, install, turbo, config, resolution, files, fs0,
                   exit_code>>
    /\ UNCHANGED <<version_vars, foreign>>

\* fs::create_dir(project_path): not recursive, fails on an existing path
\* and on the empty path.
CreateRoot ==
    /\ pc = "create_dir"
    /\ \E io_ok \in BOOLEAN :
         LET ok == io_ok /\ ~Exists(project_path) /\ ~is_empty(config.name)
         IN  /\ trace' = Append(trace, Event("create_dir", project_path,
                                              IF ok THEN "ok" ELSE "io_err"))
             /\ IF ok
                THEN /\ dirs' = dirs \cup {project_path}
                     /\ pc' = "create_directories"
                     /\ idx' = 1
                     /\ UNCHANGED <<generation, err>>
                ELSE /\ GenerateFail(<<Lit("io error: create_dir")>>)
                     /\ UNCHANGED <<dirs, idx>>
    /\ UNCHANGED <<args, project_name, install, turbo, config, resolution, files, fs0,
                   exit_code>>
    /\ UNCHANGED <<version_vars, foreign>>

\* A variant of CreateDirectory that goes on with the next entry when
\* create_dir_all fails.
CreateDirectory_IgnoresError ==
    /\ pc = "create_directories"
    /\ idx <= Len(DIRECTORIES)
    /\ LET dir_path == project_path \o DIRECTORIES[idx]
       IN  \E k \in 0..Len(dir_path) :
                /\ trace' = Append(trace, Event("create_dir_all", dir_path,
                                                 IF k = Len(dir_path) THEN "ok" ELSE "io_err"))
                /\ dirs' = create_dir_all(dir_path, k)
                /\ idx' = idx + 1
    /\ UNCHANGED <<args, project_name, install, turbo, config, resolution, files, fs0,
                   exit_code, pc, generation, err>>
    /\ UNCHANGED <<version_vars, foreign>>

\* One iteration of the loop of create_directories.
CreateDirectory ==
    /\ pc = "create_directories"
    /\ idx <= Len(DIRECTORIES)
    /\ LET dir_path == project_path \o DIRECTORIES[idx]
       IN  \E k \in 0..Len(dir_path) :
                /\ trace' = Append(trace, Event("create_dir_all", dir_path,
                                                 IF k = Len(dir_path) THEN "ok" ELSE "io_err"))
                /\ dirs' = create_dir_all(dir_path, k)
                /\ IF k = Len(dir_path)
                   THEN /\ idx' = idx + 1
                        /\ UNCHANGED <<pc, generation, err>>
                   ELSE /\ GenerateFail(<<Lit("io error: create_dir_all")>>)
                        /\ UNCHANGED idx
    /\ UNCHANGED <<args, project_name, install, turbo, config, resolution, files, fs0,
                   exit_code>>
    /\ UNCHANGED <<version_vars, foreign>>

\* A variant of DirectoriesDone that may leave the loop after any entry.
DirectoriesDone_Early ==
    /\ pc = "create_directories"
    /\ idx > 1
    /\ pc' = "create_files"
    /\ idx' = 1
    /\ UNCHANGED <<args, project_name, install, turbo, config, resolution, generation,
                   err, dirs, files, fs0, trace, exit_code>>
    /\ UNCHANGED <<version_vars, foreign>>

\* create_directories returns Ok: create_files starts.
DirectoriesDone ==
    /\ pc = "create_directories"
    /\ idx > Len(DIRECTORIES)
    /\ pc' = "create_files"
    /\ idx' = 1
    /\ UNCHANGED <<args, project_name, install, turbo, config, resolution, generation,
                   err, dirs, files, fs0, trace, exit_code>>
    /\ UNCHANGED <<version_vars, foreign>>

\* A variant of CreateFile that goes on with the next file when fs::write fails.
CreateFile_IgnoresError ==
    /\ pc = "create_files"
    /\ idx <= Len(create_files(config))
    /\ LET file == create_files(config)[idx]
           path == project_path \o file.path
       IN  \E outcome \in WriteOutcomes(path) :
                /\ trace' = Append(trace, Event("write", path, outcome))
                /\ files' = fs_write(path, file.content, outcome)
                /\ idx' = idx + 1
    /\ UNCHANGED <<args, project_name, install, turbo, config, resolution, dirs, fs0,
                   exit_code, pc, generation, err>>
    /\ UNCHANGED <<version_vars, foreign>>

\* One create_* call of create_files.
CreateFile ==
    /\ pc = "create_files"
    /\ idx <= Len(create_files(config))
    /\ LET file == create_files(config)[idx]
           path == project_path \o file.path
       IN  \E outcome \in WriteOutcomes(path) :
                /\ trace' = Append(trace, Event("write", path, outcome))
                /\ files' = fs_write(path, file.content, outcome)
                /\ IF outcome = "ok"
                   THEN /\ idx' = idx + 1
                        /\ UNCHANGED <<pc, generation, err>>
                   ELSE /\ GenerateFail(<<Lit("io error: write")>>)
                        /\ UNCHANGED idx
    /\ UNCHANGED <<args, project_name, install, turbo, config, resolution, dirs, fs0,
                   exit_code>>
    /\ UNCHANGED <<version_vars, foreign>>

\* A variant of InstallDependencies without the config.install_deps test.
InstallDependencies_Unconditional ==
    /\ pc = "create_files"
    /\ idx > Len(create_files(config))
    /\ \E out \in ProcessOutcomes :
         /\ trace' = Append(trace, Event("pnpm install", project_path, out))
         /\ IF install_dependencies_with_pnpm(out) = ""
            THEN /\ generation' = "ok"
                 /\ pc' = ReturnTo
                 /\ UNCHANGED err
            ELSE GenerateFail(<<Lit(install_dependencies_with_pnpm(out))>>)
    /\ UNCHANGED <<args, project_name, install, turbo, config, resolution, dirs, files,
                   fs0, exit_code, idx>>
    /\ UNCHANGED <<version_vars, foreign>>

\* create_files returns Ok and config.install_deps holds: run `pnpm install`
\* in the project directory; only a failed spawn is an error.
InstallDependencies ==
    /\ pc = "create_files"
    /\ idx > Len(create_files(config))
    /\ config.install_deps
    /\ \E out \in ProcessOutcomes :
         /\ trace' = Append(trace, Event("pnpm install", project_path, out))
         /\ IF install_dependencies_with_pnpm(out) = ""
            THEN /\ generation' = "ok"
                 /\ pc' = ReturnTo
                 /\ UNCHANGED err
            ELSE GenerateFail(<<Lit(install_dependencies_with_pnpm(out))>>)
    /\ UNCHANGED <<args, project_name, install, turbo, config, resolution, dirs, files,
                   fs0, exit_code, idx>>
    /\ UNCHANGED <<version_vars, foreign>>

\* create_files returns Ok and config.install_deps is false: Ok(()).
NoInstall ==
    /\ pc = "create_files"
    /\ idx > Len(create_files(config))
    /\ ~config.install_deps
    /\ generation' = "ok"
    /\ pc' = ReturnTo
    /\ UNCHANGED <<args, project_name, install, turbo, config, resolution, err, dirs,
                   files, fs0, trace, exit_code, idx>>
    /\ UNCHANGED <<version_vars, foreign>>

\* ------------------------------------------------------------------ main.rs
\* main returns: Ok(()) exits with 0, a propagated error with 1.
MainReturn ==
    /\ pc = "main_return"
    /\ exit_code' = IF err = <<>> THEN 0 ELSE 1
    /\ pc' = "exited"
    /\ UNCHANGED <<args, project_name, install, turbo, config, resolution, generation,
                   err, dirs, files, fs0, trace, idx>>
    /\ UNCHANGED <<version_vars, foreign>>

Next ==
    \/ ResolveName
    \/ SkipInstall
    \/ CheckNodeVersion
    \/ CheckAndInstallPnpm
    \/ ConfirmInstall
    \/ ConfirmTurbo
    \/ ConfirmReactQuery
    \/ CheckDestination
    \/ ForeignCreate
    \/ CreateRoot
    \/ CreateDirectory
    \/ DirectoriesDone
    \/ CreateFile
    \/ InstallDependencies
    \/ NoInstall
    \/ MainReturn

Spec == Init /\ [][Next]_vars

\* The program is sequential and blocks on nothing but its collaborators: as
\* long as a step is enabled, one is eventually taken.
FairSpec == Spec /\ WF_vars(Next)

\* ------------------------------------------------------------------ version helpers
\* The units version strings are written with: the prefix letter, the
\* separator, a blank, two numbers on either side of the required version,
\* the number after u32::MAX, and a run of characters that is not a number.
VersionUnits ==
    { <<"v">>, <<".">>, <<" ">>, <<"1", "8">>, <<"0">>,
      <<"4", "2", "9", "4", "9", "6", "7", "2", "9", "6">>,
      <<"-", "p", "r", "e">> }

RECURSIVE Flatten(_)
Flatten(units) == IF units = <<>> THEN <<>> ELSE Head(units) \o Flatten(Tail(units))

VersionStrings == {Flatten(units) : units \in SeqsUpTo(VersionUnits, MaxVersionUnits)}

\* No run is in progress: the helpers are called on their own, as the unit
\* tests of validation.rs do.
NoRun ==
    /\ pc = "off"
    /\ args = [name |-> [some |-> FALSE, val |-> <<>>], skip_install |-> FALSE]
    /\ config = NoConfig
    /\ resolution = "not_run"
    /\ project_name = <<>>
    /\ install = FALSE
    /\ turbo = FALSE
    /\ generation = "pending"
    /\ err = <<>>
    /\ fs0 = [dirs |-> {}, files |-> NoFiles]
    /\ dirs = {}
    /\ files = NoFiles
    /\ trace = <<>>
    /\ exit_code = -1
    /\ idx = 1

\* Either a version string is about to be parsed, or a (major, minor) pair
\* is about to be compared.
VersionInit ==
    /\ NoRun
    /\ compatible = FALSE
    /\ checked = "none"
    /\ foreign = "none"
    /\ \/ /\ vpc = "parse"
          /\ version_str \in VersionStrings
          /\ parsed = NoParse
       \/ /\ vpc = "compare_pair"
          /\ version_str = <<>>
          /\ parsed \in [ok : {TRUE}, major : 0..MaxMajor, minor : 0..MaxMinor, err : {""}]

ParseNodeVersion ==
    /\ vpc = "parse"
    /\ parsed' = parse_node_version(version_str)
    /\ vpc' = IF parsed'.ok THEN "compare" ELSE "check"
    /\ UNCHANGED <<version_str, compatible, checked>>
    /\ UNCHANGED <<pc, args, project_name, install, turbo, config, resolution, generation,
                   err, dirs, files, fs0, trace, exit_code, idx, foreign>>

IsNodeVersionCompatible ==
    /\ vpc \in {"compare", "compare_pair"}
    /\ compatible' = is_node_version_compatible(parsed.major, parsed.minor)
    /\ vpc' = IF vpc = "compare" THEN "check" ELSE "done"
    /\ UNCHANGED <<version_str, parsed, checked>>
    /\ UNCHANGED <<pc, args, project_name, install, turbo, config, resolution, generation,
                   err, dirs, files, fs0, trace, exit_code, idx, foreign>>

\* The logic of check_node_version after the process has exited with
\* success, on the same string as its standard output.
CheckNodeVersionInline ==
    /\ vpc = "check"
    /\ checked' = check_node_version([spawned |-> TRUE, success |-> TRUE,
                                      stdout |-> version_str])
    /\ vpc' = "done"
    /\ UNCHANGED <<version_str, parsed, compatible>>
    /\ UNCHANGED <<pc, args, project_name, install, turbo, config, resolution, generation,
                   err, dirs, files, fs0, trace, exit_code, idx, foreign>>

VersionNext ==
    \/ ParseNodeVersion
    \/ IsNodeVersionCompatible
    \/ CheckNodeVersionInline

VersionSpec == VersionInit /\ [][VersionNext]_vars

\* ================================================================== properties
HasConfig == resolution \in {"ok", "not_run"}

Returned == generation # "pending"

FsOps == {"create_dir", "create_dir_all", "write", "pnpm install"}

TraceOps(ops) == {i \in 1..Len(trace) : trace[i].op \in ops}

DestinationExisted ==
    /\ HasConfig
    /\ ~is_empty(config.name)
    /\ project_path \in fs0.dirs \cup DOMAIN fs0.files

\* C1: when the destination path already exists, generate_project fails with
\* "Directory '<name>' already exists!" before any directory or file is
\* created and before the installer runs; the filesystem is left as it was.
C1_ExistingDestinationUntouched ==
    DestinationExisted =>
        /\ TraceOps(FsOps) = {}
        /\ dirs = fs0.dirs
        /\ files = fs0.files
        /\ pc \in {"generate_project", "main_return", "returned", "exited"}
        /\ pc # "generate_project" =>
               /\ generation = "err"
               /\ err = <<Lit("Directory '"), Val(config.name), Lit("' already exists!")>>

C1_Witness ==
    /\ DestinationExisted
    /\ generation = "err"
    /\ DOMAIN fs0.files # {}
    /\ files = fs0.files

BlankName(name) == is_empty(trim(name))

\* C2: a project name that is blank after trimming, supplied on the command
\* line or typed at the prompt, makes resolution fail with "Project name
\* cannot be empty": no ProjectConfig is returned and no directory is created.
C2_BlankNameRejected ==
    /\ resolution = "ok" => ~BlankName(config.name)
    /\ (args.name.some /\ BlankName(args.name.val)) =>
           /\ resolution # "ok"
           /\ dirs = fs0.dirs
           /\ pc = "exited" => err = <<Lit(EmptyNameError)>>

\* C3 as stated: a resolved configuration without install_deps has neither
\* use_turbo nor use_react_query.
C3_NoInstallImpliesNoFeatures ==
    (resolution = "ok" /\ ~config.install_deps) =>
        (~config.use_turbo /\ ~config.use_react_query)

Answered(op, answer) ==
    \E i \in 1..Len(trace) : trace[i].op = op /\ trace[i].out = answer

\* C3 (amended): a resolved configuration without install_deps has
\* use_turbo = false; use_react_query is false as well when skip_install was
\* given, and otherwise is exactly the answer to the React Query question.
C3_NoInstallImpliesNoTurbo ==
    (resolution = "ok" /\ ~config.install_deps) =>
        /\ ~config.use_turbo
        /\ args.skip_install => ~config.use_react_query
        /\ ~args.skip_install =>
               (config.use_react_query <=> Answered("confirm react query", "yes"))

C3_Witness ==
    /\ resolution = "ok"
    /\ ~config.install_deps
    /\ ~args.skip_install
    /\ config.use_react_query
    /\ Answered("confirm install", "no")

ResolutionOps ==
    {"node --version", "which pnpm", "confirm pnpm", "npm install -g pnpm",
     "confirm install", "confirm turbo", "confirm react query"}

\* C4: with skip_install, resolution returns install_deps = use_turbo =
\* use_react_query = false, asks no yes/no question and runs neither the
\* runtime-version probe nor the package-manager probe.
C4_SkipInstallAsksNothing ==
    (args.skip_install /\ resolution # "not_run") =>
        /\ TraceOps(ResolutionOps) = {}
        /\ resolution = "ok" =>
               /\ ~config.install_deps
               /\ ~config.use_turbo
               /\ ~config.use_react_query
        /\ pc \notin {"check_pnpm", "confirm_install", "confirm_turbo", "confirm_react_query"}

C4_Witness ==
    /\ args.skip_install
    /\ resolution = "ok"
    /\ ~args.name.some
    /\ generation = "ok"

QueryFiles ==
    { <<"src", "libs", "query-provider.tsx">>, <<"src", "libs", "api.ts">>,
      <<"src", "hooks", "use-api.ts">> }

\* C5: after a successful materialization the three data-fetching files all
\* exist when use_react_query is true and none of them exists, in any form,
\* when it is false.
C5_QueryFilesAllOrNone ==
    generation = "ok" =>
        IF config.use_react_query
        THEN QueryFiles \subseteq DOMAIN files
        ELSE QueryFiles \cap (DOMAIN files \cup dirs) = {}

C5_Witness ==
    /\ generation = "ok"
    /\ config.use_react_query
    /\ QueryFiles \subseteq DOMAIN files

PackageJson == <<"package.json">>

Written(path) ==
    \E i \in 1..Len(trace) :
        trace[i].op = "write" /\ trace[i].path = path /\ trace[i].out = "ok"

\* The text that follows the "dev": " key in a package.json.
DevScriptOf(content) ==
    LET k == CHOOSE i \in 1..Len(content) : content[i] = DevKey
    IN  content[k + 1].t

\* C6: the dev script written to package.json is "next dev --turbo" when
\* use_turbo is true and exactly "next dev" otherwise, whatever the name and
\* the other flags are.
C6_DevScriptFollowsTurbo ==
    Written(PackageJson) =>
        /\ DevScriptOf(files[PackageJson]) \in {"next dev", "next dev --turbo"}
        /\ DevScriptOf(files[PackageJson]) = "next dev --turbo" <=> config.use_turbo

C6_Witness ==
    /\ Written(PackageJson)
    /\ config.use_turbo
    /\ ~config.install_deps
    /\ DevScriptOf(files[PackageJson]) = "next dev --turbo"

InstallExited(status) ==
    \E i \in 1..Len(trace) : trace[i].op = "pnpm install" /\ trace[i].out = status

\* C7: when install_deps is true and `pnpm install` exits with a non-zero
\* status, generate_project still returns Ok and everything written before
\* the install step is still in place.
C7_InstallFailureIsWarning ==
    InstallExited("failure") =>
        /\ config.install_deps
        /\ generation = "ok"
        /\ err = <<>>
        /\ \A i \in 1..Len(trace) :
               /\ (trace[i].op \in {"create_dir", "create_dir_all"} /\ trace[i].out = "ok")
                      => trace[i].path \in dirs
               /\ (trace[i].op = "write" /\ trace[i].out = "ok")
                      => trace[i].path \in DOMAIN files
        /\ \A j \in 1..Len(create_files(config)) :
               files[create_files(config)[j].path] = create_files(config)[j].content

C7_Witness ==
    /\ InstallExited("failure")
    /\ generation = "ok"
    /\ <<"README.md">> \in DOMAIN files

OkEvents(op) == {i \in 1..Len(trace) : trace[i].op = op /\ trace[i].out = "ok"}

AllStepsSucceeded ==
    /\ Cardinality(OkEvents("create_dir")) = 1
    /\ Cardinality(OkEvents("create_dir_all")) = 10
    /\ Cardinality(OkEvents("write")) = 12 + (IF config.use_react_query THEN 3 ELSE 0)

\* C8: `pnpm install` runs exactly once when install_deps is true and every
\* directory and file step succeeded, and never otherwise; it runs in the
\* destination directory, right after README.md has been written.
C8_InstallOnceAfterReadme ==
    /\ Cardinality(TraceOps({"pnpm install"})) <= 1
    /\ \A i \in TraceOps({"pnpm install"}) :
           /\ trace[i].path = project_path
           /\ i > 1
           /\ trace[i - 1] = Event("write", <<"README.md">>, "ok")
           /\ \A j \in TraceOps({"create_dir", "create_dir_all", "write"}) : j < i
    /\ Returned =>
           (Cardinality(TraceOps({"pnpm install"})) = 1
                <=> (config.install_deps /\ AllStepsSucceeded))

C8_Witness ==
    /\ Returned
    /\ config.install_deps
    /\ AllStepsSucceeded
    /\ Cardinality(TraceOps({"pnpm install"})) = 1

DirectorySet ==
    { <<"src", "app">>, <<"src", "components">>, <<"src", "constants">>,
      <<"src", "hooks">>, <<"src", "libs">>, <<"src", "assets">>,
      <<"src", "types">>, <<"src", "fonts">>, <<"src", "styles">>, <<"public">> }

UnconditionalFiles ==
    { <<"package.json">>, <<"tsconfig.json">>, <<"postcss.config.mjs">>,
      <<"next.config.ts">>, <<".eslintrc.json">>, <<".gitignore">>, <<".npmrc">>,
      <<"src", "app", "layout.tsx">>, <<"src", "app", "page.tsx">>,
      <<"src", "styles", "globals.css">>, <<"src", "components", "Button.tsx">>,
      <<"README.md">> }

ApplicableFiles ==
    UnconditionalFiles \cup (IF config.use_react_query THEN QueryFiles ELSE {})

WriteOrder ==
    << <<"package.json">>, <<"tsconfig.json">>, <<"postcss.config.mjs">>,
       <<"next.config.ts">>, <<".eslintrc.json">>, <<".gitignore">>, <<".npmrc">>,
       <<"src", "app", "layout.tsx">>, <<"src", "app", "page.tsx">>,
       <<"src", "styles", "globals.css">>, <<"src", "components", "Button.tsx">> >>
    \o (IF config.use_react_query
        THEN << <<"src", "libs", "query-provider.tsx">>, <<"src", "libs", "api.ts">>,
                <<"src", "hooks", "use-api.ts">> >>
        ELSE << >>)
    \o << <<"README.md">> >>

Writes == SelectSeq(trace, LAMBDA e : e.op = "write")

\* C10: files are written in one fixed order, the React Query files only when
\* use_react_query is true and README.md last; a file is attempted only after
\* every file before it in the order has been written successfully.
C10_FixedWriteOrder ==
    /\ Len(Writes) <= Len(WriteOrder)
    /\ \A i \in 1..Len(Writes) :
           /\ Writes[i].path = WriteOrder[i]
           /\ i < Len(Writes) => Writes[i].out = "ok"
    /\ generation = "ok" =>
           /\ Len(Writes) = Len(WriteOrder)
           /\ Writes[Len(Writes)].out = "ok"

C10_Witness ==
    /\ generation = "ok"
    /\ config.use_react_query
    /\ Len(Writes) = 15
    /\ Writes[15].path = <<"README.md">>

\* The runtime-version probe failed, or pnpm is missing and the user declined
\* to install it.
EnvironmentPreconditionFailed ==
    \E i \in 1..Len(trace) :
        \/ trace[i].op = "node --version" /\ trace[i].out = "err"
        \/ trace[i].op = "confirm pnpm" /\ trace[i].out = "no"

\* C11: an environment precondition failure (runtime absent or too old, or
\* pnpm absent and its installation declined) is fatal and happens before any
\* filesystem mutation: such a run creates no directory and no file.
C11_EnvironmentFailureBeforeFilesystem ==
    EnvironmentPreconditionFailed =>
        /\ resolution = "err"
        /\ err # <<>>
        /\ generation = "pending"
        /\ pc \in {"main_return", "exited"}
        /\ pc = "exited" => exit_code = 1
        /\ TraceOps(FsOps) = {}
        /\ dirs = fs0.dirs
        /\ files = fs0.files

C11_Witness ==
    /\ pc = "exited"
    /\ err = <<Lit("Node.js version is not supported")>>
    /\ dirs = {}
    /\ DOMAIN files = {}

\* A step of the materializer that makes generate_project return Err.
FailingStep(e) ==
    \/ e.op \in {"create_dir", "create_dir_all", "write"} /\ e.out # "ok"
    \/ e.op = "pnpm install" /\ e.out = "spawn_err"

FailingSteps == {i \in 1..Len(trace) : FailingStep(trace[i])}

FullySucceeded ==
    /\ generation = "ok"
    /\ err = <<>>
    /\ FailingSteps = {}
    /\ project_path \in dirs
    /\ DirectorySet \subseteq dirs
    /\ DOMAIN files = ApplicableFiles
    /\ Cardinality(TraceOps({"pnpm install"})) = (IF config.install_deps THEN 1 ELSE 0)

FailedAtFirstFailure ==
    /\ generation = "err"
    /\ err # <<>>
    /\ \/ TraceOps(FsOps) = {} /\ DestinationExisted
       \/ FailingSteps = {Len(trace)}

C12_TerminalStates ==
    /\ Returned => (FullySucceeded \/ FailedAtFirstFailure)
    /\ Returned => pc \in {"main_return", "exited", "returned"}
    /\ FailingSteps # {} => (Returned /\ FailingSteps = {Len(trace)})

\* C12: every run of the materializer terminates, and it does so in one of two
\* states: fully succeeded (root, the Directory Set and all applicable files
\* present, install attempted iff install_deps) or failed at the first failing
\* step, after which no later step is executed.
C12_TwoTerminalStates ==
    /\ []C12_TerminalStates
    /\ HasConfig ~> Returned

C12_Witness ==
    /\ FailedAtFirstFailure
    /\ Len(trace) > 0
    /\ trace[Len(trace)] = Event("write", <<"src", "app", "page.tsx">>, "io_err_truncated")
    /\ <<".npmrc">> \in DOMAIN files
    /\ <<"README.md">> \notin DOMAIN files

IoFailure(e) == e.op \in {"create_dir", "create_dir_all", "write"} /\ e.out # "ok"

AttemptedPaths == {trace[i].path : i \in TraceOps({"create_dir", "create_dir_all", "write"})}

\* C13: when a directory or file creation fails, generate_project returns the
\* error at once and rolls nothing back: what was created before is still
\* there, and nothing later in the sequence has been created.
C13_FailureLeavesPartialTree ==
    \A i \in 1..Len(trace) :
        IoFailure(trace[i]) =>
            /\ i = Len(trace)
            /\ generation = "err"
            /\ err # <<>>
            /\ pc \in {"main_return", "exited", "returned"}
            /\ TraceOps({"pnpm install"}) = {}
            /\ \A j \in 1..(i - 1) :
                   /\ trace[j].op \in {"create_dir", "create_dir_all"}
                          => (trace[j].out = "ok" /\ trace[j].path \in dirs)
                   /\ trace[j].op = "write"
                          => (trace[j].out = "ok" /\ trace[j].path \in DOMAIN files
                              /\ files[trace[j].path] # <<>>)
            /\ \A p \in ({project_path} \cup DirectorySet \cup UnconditionalFiles
                             \cup QueryFiles) \ AttemptedPaths :
                   p \notin dirs \cup DOMAIN files

C13_Witness ==
    /\ generation = "err"
    /\ Len(trace) > 0
    /\ trace[Len(trace)] = Event("create_dir_all", <<"src", "libs">>, "io_err")
    /\ <<"src", "hooks">> \in dirs
    /\ <<"src", "libs">> \notin dirs
    /\ <<"public">> \notin dirs
    /\ DOMAIN files = {}

Layout == <<"src", "app", "layout.tsx">>

Range(seq) == {seq[i] : i \in 1..Len(seq)}

IndexOf(seq, x) == CHOOSE i \in 1..Len(seq) : seq[i] = x

\* The entries between "dependencies": { and its closing brace.
DependenciesOf(content) ==
    SubSeq(content, IndexOf(content, DepsOpen) + 1, IndexOf(content, DepsClose) - 1)

ReactQueryDep == Lit(", \"@tanstack/react-query\": \"^5.59.0\"")

ReactQueryDevtoolsDep == Lit(", \"@tanstack/react-query-devtools\": \"^5.59.0\"")

ImportLine == Lit("import { QueryProvider } from '@/libs/query-provider'")

OpenTag == Lit("<QueryProvider>")

CloseTag == Lit("</QueryProvider>")

Children == Lit("{children}")

LayoutWrapped(layout) ==
    /\ {ImportLine, OpenTag, CloseTag, Children} \subseteq Range(layout)
    /\ IndexOf(layout, ImportLine) < IndexOf(layout, OpenTag)
    /\ IndexOf(layout, OpenTag) < IndexOf(layout, Children)
    /\ IndexOf(layout, Children) < IndexOf(layout, CloseTag)

\* C14: in a successfully generated project the three data-fetching files,
\* the two @tanstack dependencies of package.json and the QueryProvider import
\* and wrapper of layout.tsx are all present or all absent; the layout never
\* imports '@/libs/query-provider' while that file is missing.
C14_ReactQueryArtefactsAgree ==
    generation = "ok" =>
        /\ \/ /\ QueryFiles \subseteq DOMAIN files
              /\ {ReactQueryDep, ReactQueryDevtoolsDep}
                     \subseteq Range(DependenciesOf(files[PackageJson]))
              /\ LayoutWrapped(files[Layout])
           \/ /\ QueryFiles \cap DOMAIN files = {}
              /\ {ReactQueryDep, ReactQueryDevtoolsDep} \cap Range(files[PackageJson]) = {}
              /\ {ImportLine, OpenTag, CloseTag} \cap Range(files[Layout]) = {}
        /\ ImportLine \in Range(files[Layout])
               => <<"src", "libs", "query-provider.tsx">> \in DOMAIN files

C14_Witness ==
    /\ generation = "ok"
    /\ QueryFiles \subseteq DOMAIN files
    /\ ReactQueryDep \in Range(files[PackageJson])
    /\ LayoutWrapped(files[Layout])

\* C15: the dependencies block of package.json lists next, react, react-dom
\* in that order; with use_react_query the two @tanstack entries follow
\* react-dom in the same block, and without it the block holds the base
\* entries only.
C15_DependenciesBlock ==
    Written(PackageJson) =>
        DependenciesOf(files[PackageJson]) =
            << Lit("\"next\": \"^15.0.0\""), Lit(", \"react\": \"^19.0.0\""),
               Lit(", \"react-dom\": \"^19.0.0\"") >>
            \o (IF config.use_react_query
                THEN << ReactQueryDep, ReactQueryDevtoolsDep >>
                ELSE << >>)

C15_Witness ==
    /\ Written(PackageJson)
    /\ config.use_react_query
    /\ Len(DependenciesOf(files[PackageJson])) = 5
    /\ DependenciesOf(files[PackageJson])[5] = ReactQueryDevtoolsDep

\* The pieces of a file in which the text QueryProvider occurs: the three
\* template fragments that spell it, and a substituted name that spells it.
MentionsQueryProvider(piece) ==
    \/ piece \in {ImportLine, OpenTag, CloseTag}
    \/ "QueryProvider" \in Range(piece.v)

\* layout.tsx has the import line and the wrapper tags right around the
\* children placeholder exactly when use_react_query is true; otherwise the
\* placeholder stands bare inside <body>.
LayoutMarkers(layout) ==
    LET c == IndexOf(layout, Children)
    IN  /\ Children \in Range(layout)
        /\ IF config.use_react_query
           THEN /\ layout[2] = ImportLine
                /\ layout[c - 1] = OpenTag
                /\ layout[c + 1] = CloseTag
                /\ Cardinality({i \in 1..Len(layout) :
                                   layout[i] \in {ImportLine, OpenTag, CloseTag}}) = 3
           ELSE /\ {ImportLine, OpenTag, CloseTag} \cap Range(layout) = {}
                /\ layout[c - 1] = Lit("', description; RootLayout <html><body>")
                /\ layout[c + 1] = Lit("</body></html>")

\* C16 as stated: layout.tsx has the QueryProvider import line and the
\* wrapper tags around the children placeholder exactly when use_react_query
\* is true; when it is false the text QueryProvider occurs nowhere in the
\* file and the placeholder appears bare.
C16_LayoutWrapper ==
    Written(Layout) =>
        /\ LayoutMarkers(files[Layout])
        /\ ~config.use_react_query
               => \A i \in 1..Len(files[Layout]) :
                      ~MentionsQueryProvider(files[Layout][i])

\* C16 amended: the same markers; when use_react_query is false the text
\* QueryProvider occurs in layout.tsx only inside the substituted project
\* name of the metadata title, and only when the name itself contains it.
C16_LayoutWrapperUpToName ==
    Written(Layout) =>
        /\ LayoutMarkers(files[Layout])
        /\ ~config.use_react_query
               => \A i \in 1..Len(files[Layout]) :
                      MentionsQueryProvider(files[Layout][i])
                          => /\ files[Layout][i] = Val(config.name)
                             /\ "QueryProvider" \in Range(config.name)
                             /\ files[Layout][i - 1] = Lit("const inter; metadata title: '")

C16_Witness ==
    /\ Written(Layout)
    /\ ~config.use_react_query
    /\ "QueryProvider" \in Range(config.name)
    /\ {ImportLine, OpenTag, CloseTag} \cap Range(files[Layout]) = {}
    /\ Children \in Range(files[Layout])

Page == <<"src", "app", "page.tsx">>

Readme == <<"README.md">>

\* The value substituted right after the template fragment lit; a value of
\* no characters leaves nothing between lit and the next fragment.
SubstitutedAfter(content, lit) ==
    LET i == IndexOf(content, lit)
    IN  IF i < Len(content) /\ content[i + 1].t = "" THEN content[i + 1].v ELSE << >>

\* The template fragment that follows lit and the value substituted after it.
FragmentAfter(content, lit) ==
    LET i == IndexOf(content, lit)
        j == IF i < Len(content) /\ content[i + 1].t = "" THEN i + 2 ELSE i + 1
    IN  content[j]

NameAt(path, before, after) ==
    Written(path) =>
        /\ before \in Range(files[path])
        /\ SubstitutedAfter(files[path], before) = config.name
        /\ FragmentAfter(files[path], before) = after

\* C17: every written file carries config.name, character for character, in
\* its designated places: the "name" field of package.json, the metadata
\* title of layout.tsx, the heading span of page.tsx, and in README.md the
\* top heading and the root line of the project-structure block.
C17_NameReproduced ==
    /\ NameAt(PackageJson, Lit("{ \"name\": \""), DevKey)
    /\ NameAt(Layout, Lit("const inter; metadata title: '"),
              Lit("', description; RootLayout <html><body>"))
    /\ NameAt(Page, Lit("Home: Welcome to <span>"),
              Lit("</span> Next.js 15, Tailwind CSS, TypeScript"))
    /\ NameAt(Readme, Lit("# "), Lit("Getting Started, Features, Project Structure: "))
    /\ NameAt(Readme, Lit("Getting Started, Features, Project Structure: "),
              Lit(" src/ public/ tsconfig.json package.json; Learn More, Deploy"))

C17_Witness ==
    /\ Written(Readme)
    /\ Written(Page)
    /\ config.name = <<"a", " ">>
    /\ files[Readme][2] = Val(<<"a", " ">>)
    /\ files[Readme][4] = Val(<<"a", " ">>)
    /\ files[PackageJson][2] = Val(<<"a", " ">>)

FlagIndependentFiles ==
    { <<"tsconfig.json">>, <<"postcss.config.mjs">>, <<".eslintrc.json">>,
      <<".gitignore">>, <<".npmrc">>, Page, <<"src", "styles", "globals.css">>,
      <<"src", "components", "Button.tsx">>, Readme }

\* What create_files hands to fs::write for path under configuration cfg.
ContentFor(cfg, path) ==
    LET calls == create_files(cfg)
    IN  calls[CHOOSE i \in 1..Len(calls) : calls[i].path = path].content

\* C18: the written content of tsconfig.json, postcss.config.mjs,
\* .eslintrc.json, .gitignore, .npmrc, page.tsx, globals.css, Button.tsx and
\* README.md is what any configuration of the same name and any other flags
\* would have written, and the project name is the only value substituted.
C18_FlagIndependentFiles ==
    \A path \in FlagIndependentFiles :
        Written(path) =>
            /\ \A i, t, q \in BOOLEAN :
                   ContentFor(ProjectConfig_new(config.name, i, t, q), path) = files[path]
            /\ \A k \in 1..Len(files[path]) :
                   files[path][k].t = "" => files[path][k].v = config.name

C18_Witness ==
    /\ Written(Readme)
    /\ config.use_turbo /\ config.use_react_query /\ config.install_deps
    /\ config.name # << >>
    /\ files[Readme] = ContentFor(ProjectConfig_new(config.name, FALSE, FALSE, FALSE), Readme)
    /\ files[Page] = ContentFor(ProjectConfig_new(config.name, FALSE, FALSE, FALSE), Page)

\* The three questions that settle the flags of the Configuration.
FlagQuestions == {"confirm install", "confirm turbo", "confirm react query"}

\* A resolver collaborator returned an error: a prompt could not be read,
\* the runtime probe did not report a supported version, or the global
\* install of the package manager did not succeed.
CollaboratorFailed(e) ==
    \/ e.op \in {"prompt name", "confirm pnpm"} \cup FlagQuestions /\ e.out = "io_err"
    \/ e.op = "node --version" /\ e.out = "err"
    \/ e.op = "npm install -g pnpm" /\ e.out \in {"spawn_err", "failure"}

\* The package-manager presence probe did not find the package manager.
ProbeFailed(e) == e.op = "which pnpm" /\ e.out = "not found"

\* Event i ended the resolution: an error and no Configuration, no flag
\* question after it, and no materialization in this run.
ResolutionStoppedAt(i) ==
    /\ resolution = "err"
    /\ config = NoConfig
    /\ generation = "pending"
    /\ TraceOps(FsOps) = {}
    /\ \A j \in (i + 1)..Len(trace) : trace[j].op \notin FlagQuestions

\* C19 as stated: when any resolver collaborator fails, the package-manager
\* presence probe included, get_project_config returns an error and no
\* Configuration, asks no further question and materialization never starts.
C19_AllOrNothing ==
    \A i \in 1..Len(trace) :
        (CollaboratorFailed(trace[i]) \/ ProbeFailed(trace[i])) => ResolutionStoppedAt(i)

\* C19 amended: a failed name prompt, runtime probe, package-manager install
\* or yes/no prompt is the last event of the run and leaves an error, no
\* Configuration and no materialization; a presence probe that does not find
\* the package manager is followed by the question whether to install it,
\* and ends the resolution only when that question or the install fails or
\* the answer is no.
C19_AllOrNothingAfterProbe ==
    \A i \in 1..Len(trace) :
        /\ CollaboratorFailed(trace[i]) => i = Len(trace) /\ ResolutionStoppedAt(i)
        /\ ProbeFailed(trace[i]) =>
               /\ i < Len(trace)
               /\ trace[i + 1].op = "confirm pnpm"
               /\ trace[i + 1].out = "yes" =>
                      /\ i + 2 <= Len(trace)
                      /\ trace[i + 2].op = "npm install -g pnpm"
               /\ resolution = "err" =>
                      \/ trace[i + 1].out = "no" /\ i + 1 = Len(trace)
                      \/ \E j \in (i + 1)..Len(trace) : CollaboratorFailed(trace[j])

C19_Witness ==
    /\ pc = "exited"
    /\ resolution = "err"
    /\ \E i \in 1..Len(trace) :
         /\ ProbeFailed(trace[i])
         /\ trace[Len(trace)].op = "npm install -g pnpm"
         /\ trace[Len(trace)].out = "failure"

\* The run was given a name that is blank after trimming, on the command
\* line or at the prompt.
EmptyNameRun ==
    \/ args.name.some /\ BlankName(args.name.val)
    \/ err = <<Lit(EmptyNameError)>>

FatalError ==
    \/ EmptyNameRun
    \/ DestinationExisted
    \/ \E i \in 1..Len(trace) : IoFailure(trace[i])
    \/ \E i \in 1..Len(trace) : trace[i].op = "node --version" /\ trace[i].out = "err"

\* C20: the process exits with code 0 exactly when resolution and
\* materialization both succeeded, and with a non-zero code after every fatal
\* error (empty name, destination exists, filesystem error, missing or
\* too-old runtime); a `pnpm install` that exits non-zero does not make the
\* exit code non-zero.
C20_ExitCodes ==
    pc = "exited" =>
        /\ exit_code = 0 <=> (resolution = "ok" /\ generation = "ok")
        /\ FatalError => exit_code # 0
        /\ InstallExited("failure") => exit_code = 0

\* is_node_version_compatible has been called on (parsed.major, parsed.minor).
Compared == vpc \in {"check", "done"} /\ parsed.ok

\* C21: is_node_version_compatible(major, minor) is true exactly when
\* (major, minor) is lexicographically at least (18, 18); (18,17) and (17,99)
\* are rejected, (18,18) and (19,0) accepted.
C21_CompatibleIffAtLeast1818 ==
    Compared =>
        /\ compatible <=> (parsed.major > 18 \/ (parsed.major = 18 /\ parsed.minor >= 18))
        /\ <<parsed.major, parsed.minor>> \in {<<18, 17>>, <<17, 99>>} => ~compatible
        /\ <<parsed.major, parsed.minor>> \in {<<18, 18>>, <<19, 0>>} => compatible

C21_Witness ==
    /\ Compared
    /\ parsed.major = 19 /\ parsed.minor = 0
    /\ compatible

\* parse_node_version has returned for version_str.
Parsed == vpc \in {"compare", "check"} \/ (vpc = "done" /\ checked # "none")

\* version_str without one leading 'v'.
Unprefixed == IF version_str # <<>> /\ version_str[1] = "v" THEN Tail(version_str) ELSE version_str

DotPositions == {i \in 1..Len(Unprefixed) : Unprefixed[i] = "."}

Min(S) == CHOOSE x \in S : \A y \in S : x <= y

\* The text before the first '.', and the text between the first '.' and the
\* second one (or the end).
FirstComponent == SubSeq(Unprefixed, 1, Min(DotPositions) - 1)

SecondComponent ==
    LET d == Min(DotPositions)
        rest == DotPositions \ {d}
    IN  SubSeq(Unprefixed, d + 1, IF rest = {} THEN Len(Unprefixed) ELSE Min(rest) - 1)

\* c is written as a u32: digits, possibly after one '+', of a value that
\* does not exceed u32::MAX.
WrittenAsU32(c) ==
    LET digits == IF c # <<>> /\ c[1] = "+" THEN Tail(c) ELSE c
    IN  /\ digits # <<>>
        /\ \A i \in 1..Len(digits) :
               digits[i] \in {"0", "1", "2", "3", "4", "5", "6", "7", "8", "9"}
        /\ ~Overflows(digits)

NumberOf(c) == DecimalValue(IF c[1] = "+" THEN Tail(c) ELSE c)

\* C22: parse_node_version strips at most one leading 'v', splits on '.', and
\* returns the numbers written in the first two components whatever follows
\* them; it returns an error when there is no second component or when the
\* first or the second component is not written as an unsigned integer.
C22_ParseFirstTwoComponents ==
    Parsed =>
        IF DotPositions = {} THEN ~parsed.ok
        ELSE IF ~WrittenAsU32(FirstComponent) \/ ~WrittenAsU32(SecondComponent)
        THEN ~parsed.ok
        ELSE /\ parsed.ok
             /\ parsed.major = NumberOf(FirstComponent)
             /\ parsed.minor = NumberOf(SecondComponent)

C22_Witness ==
    /\ Parsed
    /\ version_str = <<"1", "8", ".", "0", ".", "-", "p", "r", "e">>
    /\ parsed.ok
    /\ parsed.major = 18
    /\ parsed.minor = 0

\* Both the helpers and check_node_version's own logic have run on version_str.
BothRan == vpc = "done" /\ checked # "none"

Untrimmed ==
    /\ version_str # <<>>
    /\ version_str[1] \in Whitespace \/ version_str[Len(version_str)] \in Whitespace

ParseErrors ==
    {"Could not parse Node.js version", "Invalid major version", "Invalid minor version"}

UntrimmedDiffers ==
    /\ BothRan
    /\ Untrimmed
    /\ ~parsed.ok
    /\ checked = NodeOk

\* The place of each resolution step in get_project_config.
StepRank(op) ==
    CASE op = "prompt name" -> 0
      [] op = "node --version" -> 1
      [] op = "which pnpm" -> 2
      [] op = "confirm pnpm" -> 3
      [] op = "npm install -g pnpm" -> 4
      [] op = "confirm install" -> 5
      [] op = "confirm turbo" -> 6
      [] op = "confirm react query" -> 7
      [] OTHER -> 8

Asked(op) == \E i \in 1..Len(trace) : trace[i].op = op

\* C23: without skip_install the resolution steps happen in the order
\* runtime-version probe, package-manager probe, install question,
\* Turbopack question, React Query question, none of them before its
\* predecessor; the Turbopack question directly follows a yes to the install
\* question and is not asked otherwise, and after a no use_turbo is false.
C23_ResolutionOrder ==
    (~args.skip_install /\ resolution # "not_run") =>
        /\ \A i, j \in 1..Len(trace) :
               (i < j /\ trace[i].op \in ResolutionOps) =>
                   StepRank(trace[i].op) < StepRank(trace[j].op)
        /\ Asked("which pnpm") => Answered("node --version", "ok")
        /\ Asked("confirm install") => Asked("which pnpm")
        /\ \A i \in 1..Len(trace) :
               /\ trace[i].op = "confirm turbo" =>
                      trace[i - 1] = Event("confirm install", <<>>, "yes")
               /\ trace[i].op = "confirm react query" =>
                      \/ trace[i - 1] = Event("confirm install", <<>>, "no")
                      \/ trace[i - 1].op = "confirm turbo" /\ trace[i - 1].out # "io_err"
        /\ Answered("confirm install", "no") => ~Asked("confirm turbo") /\ ~turbo
        /\ resolution = "ok" =>
               /\ Asked("confirm install") /\ Asked("confirm react query")
               /\ Answered("confirm install", "no") => ~config.use_turbo
               /\ config.use_turbo <=> Answered("confirm turbo", "yes")

C23_Witness ==
    /\ resolution = "ok"
    /\ ~args.skip_install
    /\ Len(trace) >= 5
    /\ trace[Len(trace) - 2] = Event("confirm install", <<>>, "yes")
    /\ trace[Len(trace) - 1] = Event("confirm turbo", <<>>, "no")
    /\ trace[Len(trace)].op = "confirm react query"
    /\ pc = "generate_project"

\* check_and_install_pnpm has returned an error: the run ended on its
\* question or on the global install.
PnpmCheckFailed ==
    /\ resolution = "err"
    /\ trace # <<>>
    /\ trace[Len(trace)].op \in {"confirm pnpm", "npm install -g pnpm"}

PnpmCheckSucceeded == Asked("which pnpm") /\ ~PnpmCheckFailed

\* What C24 says and the code does in the same way: found means success
\* without a question; not found means one question, directly after the
\* probe; a no fails with 'pnpm installation required' and installs nothing;
\* a yes runs the global install once.
PnpmCheckCommon ==
    /\ Cardinality(TraceOps({"which pnpm"})) <= 1
    /\ Cardinality(TraceOps({"confirm pnpm"})) <= 1
    /\ Cardinality(TraceOps({"npm install -g pnpm"})) <= 1
    /\ Answered("which pnpm", "found") =>
           /\ ~Asked("confirm pnpm") /\ ~Asked("npm install -g pnpm")
           /\ PnpmCheckSucceeded
    /\ \A i \in 1..Len(trace) :
           /\ trace[i] = Event("which pnpm", <<>>, "not found") =>
                  i < Len(trace) /\ trace[i + 1].op = "confirm pnpm"
           /\ trace[i].op = "confirm pnpm" =>
                  trace[i - 1] = Event("which pnpm", <<>>, "not found")
           /\ trace[i].op = "npm install -g pnpm" =>
                  trace[i - 1] = Event("confirm pnpm", <<>>, "yes")
    /\ Answered("confirm pnpm", "no") =>
           /\ PnpmCheckFailed
           /\ err = <<Lit("pnpm installation required")>>
           /\ ~Asked("npm install -g pnpm")
    /\ Answered("confirm pnpm", "yes") =>
           /\ Asked("npm install -g pnpm")
           /\ PnpmCheckSucceeded <=> Answered("npm install -g pnpm", "success")

\* C24 as stated: check_and_install_pnpm succeeds without asking when pnpm is
\* found; otherwise it asks once, fails with 'pnpm installation required' on
\* a no, and on a yes succeeds exactly when the global install exits
\* successfully and fails with 'pnpm installation failed' otherwise.
C24_PnpmCheck ==
    /\ PnpmCheckCommon
    /\ (Answered("confirm pnpm", "yes") /\ ~Answered("npm install -g pnpm", "success"))
           => err = <<Lit("pnpm installation failed")>>

\* C24 amended: as stated, except that 'pnpm installation failed' is the
\* error of a global install that ran and exited with a non-zero status;
\* when the install command cannot be started the error is that of the spawn.
C24_PnpmCheckSpawn ==
    /\ PnpmCheckCommon
    /\ Answered("npm install -g pnpm", "failure")
           => err = <<Lit("pnpm installation failed")>>
    /\ Answered("npm install -g pnpm", "spawn_err")
           => /\ PnpmCheckFailed
              /\ err = <<Lit("io error: npm")>>

C24_Witness ==
    /\ PnpmCheckFailed
    /\ trace[Len(trace)] = Event("npm install -g pnpm", <<>>, "spawn_err")
    /\ trace[Len(trace) - 1] = Event("confirm pnpm", <<>>, "yes")
    /\ pc = "exited"

\* An event after which the run cannot go on: a failed collaborator of the
\* resolver, a declined installation of pnpm, a failed directory or file
\* step, or a `pnpm install` that could not be started.
Fatal(e) ==
    \/ CollaboratorFailed(e)
    \/ e.op = "confirm pnpm" /\ e.out = "no"
    \/ IoFailure(e)
    \/ e.op = "pnpm install" /\ e.out = "spawn_err"

\* C25: nothing is retried: no probe, prompt, directory creation, file write
\* or install invocation happens twice in a run (no two events have the same
\* operation and path), and a failure other than a non-zero exit of
\* `pnpm install` is the last thing the run does.
C25_NothingRetried ==
    /\ \A i, j \in 1..Len(trace) :
           (trace[i].op = trace[j].op /\ trace[i].path = trace[j].path) => i = j
    /\ \A i \in 1..Len(trace) : Fatal(trace[i]) => i = Len(trace)
    /\ (trace # <<>> /\ Fatal(trace[Len(trace)])) =>
           pc \in {"main_return", "returned", "exited"}

C25_Witness ==
    /\ pc = "exited"
    /\ Len(trace) > 20
    /\ trace[Len(trace)].op = "write"
    /\ trace[Len(trace)].out # "ok"
    /\ Answered("npm install -g pnpm", "success")

\* The Directory Set in its listed order.
ListedDirectories ==
    << <<"src", "app">>, <<"src", "components">>, <<"src", "constants">>,
       <<"src", "hooks">>, <<"src", "libs">>, <<"src", "assets">>,
       <<"src", "types">>, <<"src", "fonts">>, <<"src", "styles">>, <<"public">> >>

\* C26: the destination root is created first, then the entries of the
\* Directory Set in their listed order, each after the success of the one
\* before; every directory has been created before the first file is
\* written, so the parent directory of every file that is written exists.
C26_DirectoriesBeforeFiles ==
    LET root == TraceOps({"create_dir"})
        made == TraceOps({"create_dir_all"})
        written == TraceOps({"write"})
    IN  /\ \A i \in made \cup written :
               \E r \in root : r < i /\ trace[r].out = "ok" /\ trace[r].path = project_path
        /\ \A i \in made :
               /\ \A r \in root : i - r \in 1..10 /\ trace[i].path = ListedDirectories[i - r]
               /\ \A j \in made : j < i => trace[j].out = "ok"
        /\ written # {} =>
               /\ Cardinality({i \in made : trace[i].out = "ok"}) = 10
               /\ \A i \in made, j \in written : i < j
        /\ \A j \in written : Parent(trace[j].path) \in dirs

C26_Witness ==
    /\ pc = "create_files"
    /\ Written(<<"src", "styles", "globals.css">>)
    /\ fs0.dirs = {}
    /\ \E i \in TraceOps({"create_dir_all"}) :
         /\ trace[i] = Event("create_dir_all", <<"src", "components">>, "ok")
         /\ trace[i - 1] = Event("create_dir_all", <<"src", "app">>, "ok")

\* C27: when install_deps is true and `pnpm install` cannot be started,
\* generate_project returns that error although every directory and every
\* applicable file has been written and is still there; a process that
\* started and exited with a non-zero status is only a warning.
C27_SpawnFailureIsError ==
    /\ InstallExited("spawn_err") =>
           /\ config.install_deps
           /\ generation = "err"
           /\ err = <<Lit("io error: pnpm")>>
           /\ trace[Len(trace)].op = "pnpm install"
           /\ AllStepsSucceeded
           /\ DirectorySet \cup {project_path} \subseteq dirs
           /\ DOMAIN files = ApplicableFiles
           /\ \A j \in 1..Len(create_files(config)) :
                  files[create_files(config)[j].path] = create_files(config)[j].content
    /\ InstallExited("failure") => generation = "ok" /\ err = <<>>

C27_Witness ==
    /\ InstallExited("spawn_err")
    /\ generation = "err"
    /\ pc = "exited"
    /\ exit_code = 1
    /\ config.use_react_query
    /\ QueryFiles \subseteq DOMAIN files

\* C28: every Configuration returned by get_project_config has
\* use_turbo = true only together with install_deps = true, whatever the
\* skip-install flag and the answers were.
C28_TurboImpliesInstall ==
    resolution = "ok" => (config.use_turbo => config.install_deps)

C28_Witness ==
    /\ resolution = "ok"
    /\ config.use_turbo
    /\ config.install_deps
    /\ Answered("confirm install", "yes")
    /\ Answered("confirm turbo", "yes")

\* C29: when another process creates the destination after the existence
\* check and before the root is created, the creation of the root fails and
\* generate_project returns an error without creating any directory or file
\* there; directories and files are only ever created below a root that this
\* run created itself.
C29_NeverWritesIntoForeignRoot ==
    /\ foreign # "none" =>
           /\ OkEvents("create_dir") = {}
           /\ TraceOps({"create_dir_all", "write", "pnpm install"}) = {}
           /\ pc \in {"create_dir", "main_return", "returned", "exited"}
           /\ pc # "create_dir" =>
                  /\ generation = "err"
                  /\ trace[Len(trace)] = Event("create_dir", project_path, "io_err")
           /\ dirs = fs0.dirs \cup (IF foreign = "dir" THEN {project_path} ELSE {})
           /\ DOMAIN files = DOMAIN fs0.files \cup (IF foreign = "file" THEN {project_path} ELSE {})
           /\ foreign = "file" => files[project_path] = <<Lit("foreign")>>
    /\ \A i \in TraceOps({"create_dir_all", "write", "pnpm install"}) :
           /\ foreign = "none"
           /\ \E r \in OkEvents("create_dir") : r < i /\ trace[r].path = project_path

C29_Witness ==
    /\ foreign = "dir"
    /\ pc = "exited"
    /\ generation = "err"
    /\ exit_code = 1
    /\ dirs = {project_path}
    /\ files = NoFiles

====
